---- MODULE Spec2Model ----
(* qiniu-webpack-plugin: the after-emit synchronisation run of QiniuPlugin  *)
(* (src/src/index.js).  One run fetches the file log, reconciles it with    *)
(* the files of the build, uploads the new files through mapLimit, deletes  *)
(* the files of the oldest generation and rewrites the log.                 *)
(* The remote bucket is `store` (artifact files) and `log` (the log file).  *)
EXTENDS Integers, Sequences, FiniteSets, TLC

\* ---------------------------------------------------------------- bounds
MaxBatch == 2
MaxRuns == 3

\* ------------------------------------------------------------- constants
DefaultBatch == 10

\* the file names a build can emit, in the order of Object.keys(compilation.assets)
FileOrder == <<"a", "b", "c">>
Files == {FileOrder[i] : i \in 1..Len(FileOrder)}
BatchOptions == (1..MaxBatch) \cup {DefaultBatch}
NoLog == [absent |-> TRUE]
EmptyLog == [prev |-> {}, current |-> {}]
Terminal == {"DONE", "FAILED"}

VARIABLES
  batch,          \* this.options.batch
  log,            \* content of the remote log file, NoLog when there is none
  store,          \* artifact files present in the bucket
  pc,             \* position of afterEmitCallback
  releaseFiles,   \* candidate: files of this build
  prevFiles,      \* log.prev as read by this run
  currentFiles,   \* log.current as read by this run
  uploadFiles,    \* sequence of files to put
  deleteFiles,    \* files to delete
  nextTask,       \* mapLimit: index of the next task to start
  inflight,       \* mapLimit: indexes of the tasks started and not resolved
  succeeded,      \* mapLimit: indexes of the tasks resolved without error
  callbackCalls,  \* number of calls of the hook's callback in this run
  \* history of the run in progress
  fetchRes,       \* how the log request ended: "none", "ok", "error", "nofields"
  failure,        \* step that rejected: "none", "upload", "delete", "persist"
  deleteIssued,   \* batchDelete was called in this run
  writeIssued,    \* writeLogFile was called in this run
  logAtStart,     \* log when the run started
  storeAtStart,   \* store when the run started
  \* history of the sequence of runs
  runs,           \* number of runs started
  prevR,          \* candidate of the run before it
  clean,          \* no fetch, upload, delete or log write has failed so far
  allPublishing,  \* every run so far had a non-empty upload set
  prevFailure,    \* step that rejected in the run before this one
  \* history of the executor and of the log file in the run in progress
  starts,         \* mapLimit: how many times each task was started
  results,        \* mapLimit: the result slots
  logReads,       \* calls of getLogFile in this run
  logWrites,      \* calls of writeLogFile in this run
  \* a second run of the hook, overlapping the first
  runB

runVars == <<releaseFiles, prevFiles, currentFiles, uploadFiles, deleteFiles>>
execVars == <<nextTask, inflight, succeeded>>
histVars == <<runs, prevR, clean, allPublishing>>
ghostVars == <<fetchRes, failure, deleteIssued, writeIssued, logAtStart, storeAtStart>>
poolVars == <<starts, results>>
ioVars == <<logReads, logWrites>>
vars == <<batch, log, store, pc, runVars, execVars, callbackCalls, ghostVars, histVars,
          prevFailure, poolVars, ioVars, runB>>

\* --------------------------------------------------------------- helpers
Min(a, b) == IF a < b THEN a ELSE b

\* the files of S as an array, in the order of FileOrder
RECURSIVE SeqOf(_, _)
SeqOf(S, i) == IF i > Len(FileOrder) THEN <<>>
               ELSE (IF FileOrder[i] \in S THEN <<FileOrder[i]>> ELSE <<>>) \o SeqOf(S, i + 1)
SetToSeq(S) == SeqOf(S, 1)

Range(s) == {s[i] : i \in 1..Len(s)}

LogPrev(l) == IF l = NoLog THEN {} ELSE l.prev
LogCurrent(l) == IF l = NoLog THEN {} ELSE l.current

\* utils.combineFiles(prevFiles, currentFiles, releaseFiles)
combineFiles(prev, current, release) ==
  [uploadFiles |-> SetToSeq(release \ current),
   deleteFiles |-> prev \ (current \cup release)]

getLogFile_stale(outcome) ==
  CASE outcome = "ok"       -> [prev |-> log.prev, current |-> log.current]
    [] outcome = "error"    -> [prev |-> LogPrev(log), current |-> LogCurrent(log)]
    [] outcome = "nofields" -> [uploadTime |-> 0]

\* getLogFile: the body the request resolves with; a rejected request is
\* replaced by an empty log
getLogFile(outcome) ==
  CASE outcome = "ok"       -> [prev |-> log.prev, current |-> log.current]
    [] outcome = "error"    -> [prev |-> {}, current |-> {}]
    [] outcome = "nofields" -> [uploadTime |-> 0]

\* destructuring defaults "prev: prevFiles = []", "current: currentFiles = []"
DefaultPrev(body) == IF "prev" \in DOMAIN body THEN body.prev ELSE {}
DefaultCurrent(body) == IF "current" \in DOMAIN body THEN body.current ELSE {}

\* writeLogFile: the record put under LOG_FILENAME
writeLogFile_swapped(current, release) == [prev |-> release, current |-> current]
writeLogFile_keepPrev(current, release) == [prev |-> prevFiles, current |-> release]
writeLogFile(current, release) == [prev |-> current, current |-> release]

\* "if (uploadFiles.length > 0)" and "if (deleteFiles.length > 0)"
ShouldPublish_always(upload) == TRUE
ShouldPublish(upload) == Len(upload) > 0
ShouldDelete_never(delete) == FALSE
ShouldDelete(delete) == Cardinality(delete) > 0

\* utils.mapLimit(tasks, limit, iterator): the number of tasks started by the
\* call, and the pool after task i has ended without error
mapLimitStart(n, limit) == Min(limit, n)
mapLimitPool(tasks, pool, nxt, i) ==
  IF nxt <= Len(tasks)
    THEN [inflight |-> (pool \ {i}) \cup {nxt}, nextTask |-> nxt + 1]
    ELSE [inflight |-> pool \ {i}, nextTask |-> nxt]
mapLimitOnDone(i) == mapLimitPool(uploadFiles, inflight, nextTask, i)

\* utils.mapLimit: the result slots after task i has passed res to next
Pending == "pending"
mapLimitResult(slots, i, res) == [slots EXCEPT ![i] = res]

\* the limit handed to mapLimit: this.options.batch
UploadLimit_taskCount(n) == n
UploadLimit(n) == batch

\* uploadFileTasks[i]: the file task i puts, and the result it resolves with
TaskFile_last(upload, i) == upload[Len(upload)]
TaskFile(upload, i) == upload[i]

\* "await mapLimit(...)": the run goes on when every task has resolved
AwaitUploads_missing == TRUE
AwaitUploads == succeeded = 1..Len(uploadFiles)

\* a run of the hook that has not started
IdleRun ==
  [pc |-> "IDLE", releaseFiles |-> {}, prevFiles |-> {}, currentFiles |-> {},
   uploadFiles |-> <<>>, deleteFiles |-> {},
   nextTask |-> 1, inflight |-> {}, succeeded |-> {}, callbackCalls |-> 0]

\* ------------------------------------------------------------------ Init
Init ==
  /\ batch \in BatchOptions
  /\ log \in {NoLog, EmptyLog}
  /\ store = {}
  /\ pc = "IDLE"
  /\ releaseFiles = {} /\ prevFiles = {} /\ currentFiles = {}
  /\ uploadFiles = <<>> /\ deleteFiles = {}
  /\ nextTask = 1 /\ inflight = {} /\ succeeded = {}
  /\ callbackCalls = 0
  /\ fetchRes = "none" /\ failure = "none"
  /\ deleteIssued = FALSE /\ writeIssued = FALSE
  /\ logAtStart = log /\ storeAtStart = {}
  /\ runs = 0 /\ prevR = {}
  /\ clean = TRUE /\ allPublishing = TRUE
  /\ prevFailure = "none"
  /\ starts = <<>> /\ results = <<>>
  /\ logReads = 0 /\ logWrites = 0
  /\ runB = IdleRun

\* --------------------------------------------------------------- actions
\* after-emit fires: the files of the build are matched and the log request
\* is sent (lines 105-125).  Runs do not overlap: the previous run, with the
\* puts it left in flight, has ended.
StartRun(R) ==
  /\ pc \in {"IDLE"} \cup Terminal
  /\ inflight = {}
  /\ runs < MaxRuns
  /\ pc' = "FETCHING"
  /\ releaseFiles' = R
  /\ prevFiles' = {} /\ currentFiles' = {}
  /\ uploadFiles' = <<>> /\ deleteFiles' = {}
  /\ nextTask' = 1 /\ succeeded' = {}
  /\ callbackCalls' = 0
  /\ fetchRes' = "none" /\ failure' = "none"
  /\ deleteIssued' = FALSE /\ writeIssued' = FALSE
  /\ logAtStart' = log /\ storeAtStart' = store
  /\ runs' = runs + 1 /\ prevR' = releaseFiles
  /\ prevFailure' = failure
  /\ starts' = <<>> /\ results' = <<>>
  /\ logReads' = 1 /\ logWrites' = 0
  /\ UNCHANGED <<batch, log, store, inflight, clean, allPublishing, runB>>

\* the log request ends; the files are combined and the puts are handed to
\* mapLimit, which starts the first `batch` of them (lines 121-145)
FetchDone(outcome) ==
  /\ pc = "FETCHING"
  /\ outcome = "ok" => log # NoLog
  /\ outcome = "nofields" => log # NoLog
  /\ LET body == getLogFile(outcome)
         p == DefaultPrev(body)
         c == DefaultCurrent(body)
         r == combineFiles(p, c, releaseFiles)
         n == mapLimitStart(Len(r.uploadFiles), UploadLimit(Len(r.uploadFiles)))
     IN /\ prevFiles' = p
        /\ currentFiles' = c
        /\ uploadFiles' = r.uploadFiles
        /\ deleteFiles' = r.deleteFiles
        /\ inflight' = 1..n
        /\ nextTask' = n + 1
        /\ starts' = [i \in 1..Len(r.uploadFiles) |-> IF i <= n THEN 1 ELSE 0]
        /\ results' = [i \in 1..Len(r.uploadFiles) |-> Pending]
        /\ allPublishing' = (allPublishing /\ ShouldPublish(r.uploadFiles))
  /\ succeeded' = {}
  /\ pc' = "UPLOADING"
  /\ fetchRes' = outcome
  /\ clean' = (clean /\ (outcome = "ok" \/ log = NoLog))
  /\ UNCHANGED <<batch, log, store, releaseFiles, callbackCalls, failure,
                 deleteIssued, writeIssued, logAtStart, storeAtStart, runs, prevR,
                 prevFailure, ioVars, runB>>

\* one put resolves: next(null, res); mapLimit starts the next pending task
UploadOk(i) ==
  /\ i \in inflight
  /\ store' = store \cup {TaskFile(uploadFiles, i)}
  /\ IF pc = "UPLOADING"
       THEN /\ succeeded' = succeeded \cup {i}
            /\ inflight' = mapLimitOnDone(i).inflight
            /\ nextTask' = mapLimitOnDone(i).nextTask
            /\ starts' = [j \in DOMAIN starts |->
                            IF j \in mapLimitOnDone(i).inflight \ inflight
                              THEN starts[j] + 1 ELSE starts[j]]
            /\ results' = mapLimitResult(results, i, TaskFile(uploadFiles, i))
       ELSE /\ inflight' = inflight \ {i}
            /\ UNCHANGED <<succeeded, nextTask, poolVars>>
  /\ UNCHANGED <<batch, log, pc, runVars, callbackCalls, ghostVars, histVars,
                 prevFailure, ioVars, runB>>

UploadFail_swallow(i) ==
  /\ i \in inflight
  /\ failure' = IF pc = "UPLOADING" THEN "upload" ELSE failure
  /\ clean' = FALSE
  /\ IF pc = "UPLOADING"
       THEN /\ succeeded' = succeeded \cup {i}
            /\ inflight' = mapLimitOnDone(i).inflight
            /\ nextTask' = mapLimitOnDone(i).nextTask
       ELSE /\ inflight' = inflight \ {i}
            /\ UNCHANGED <<succeeded, nextTask>>
  /\ UNCHANGED <<batch, log, store, pc, runVars, callbackCalls,
                 fetchRes, deleteIssued, writeIssued, logAtStart, storeAtStart,
                 runs, prevR, allPublishing, prevFailure, poolVars, ioVars, runB>>

\* one put rejects: next(err); mapLimit rejects and the await at line 145
\* throws; the tasks in flight are left to end on their own
UploadFail(i) ==
  /\ i \in inflight
  /\ inflight' = inflight \ {i}
  /\ IF pc = "UPLOADING"
       THEN /\ pc' = "FAILED"
            /\ failure' = "upload"
            /\ clean' = FALSE
       ELSE UNCHANGED <<pc, failure, clean>>
  /\ UNCHANGED <<batch, log, store, runVars, nextTask, succeeded, callbackCalls,
                 fetchRes, deleteIssued, writeIssued, logAtStart, storeAtStart,
                 runs, prevR, allPublishing, prevFailure, poolVars, ioVars, runB>>

\* mapLimit resolved: lines 158-178 up to the next await
UploadsDone ==
  /\ pc = "UPLOADING"
  /\ AwaitUploads
  /\ IF ShouldPublish(uploadFiles)
       THEN IF ShouldDelete(deleteFiles)
              THEN /\ pc' = "DELETING"
                   /\ deleteIssued' = TRUE
                   /\ UNCHANGED <<writeIssued, callbackCalls, logWrites>>
              ELSE /\ pc' = "PERSISTING"
                   /\ writeIssued' = TRUE
                   /\ logWrites' = logWrites + 1
                   /\ UNCHANGED <<deleteIssued, callbackCalls>>
       ELSE /\ pc' = "DONE"
            /\ callbackCalls' = callbackCalls + 1
            /\ UNCHANGED <<deleteIssued, writeIssued, logWrites>>
  /\ UNCHANGED <<batch, log, store, runVars, execVars, fetchRes, failure,
                 logAtStart, storeAtStart, histVars, prevFailure, poolVars,
                 logReads, runB>>

DeleteOk_deletesPrev ==
  /\ pc = "DELETING"
  /\ store' = store \ prevFiles
  /\ pc' = "PERSISTING"
  /\ writeIssued' = TRUE
  /\ logWrites' = logWrites + 1
  /\ UNCHANGED <<batch, log, runVars, execVars, callbackCalls, fetchRes, failure,
                 deleteIssued, logAtStart, storeAtStart, histVars, prevFailure,
                 poolVars, logReads, runB>>

\* batchDelete resolves: the files are gone, the log is written next
DeleteOk ==
  /\ pc = "DELETING"
  /\ store' = store \ deleteFiles
  /\ pc' = "PERSISTING"
  /\ writeIssued' = TRUE
  /\ logWrites' = logWrites + 1
  /\ UNCHANGED <<batch, log, runVars, execVars, callbackCalls, fetchRes, failure,
                 deleteIssued, logAtStart, storeAtStart, histVars, prevFailure,
                 poolVars, logReads, runB>>

\* batchDelete rejects, having deleted the files of D: the await at line 166
\* throws
DeleteFail(D) ==
  /\ pc = "DELETING"
  /\ D \subseteq deleteFiles
  /\ store' = store \ D
  /\ pc' = "FAILED"
  /\ failure' = "delete"
  /\ clean' = FALSE
  /\ UNCHANGED <<batch, log, runVars, execVars, callbackCalls, fetchRes,
                 deleteIssued, writeIssued, logAtStart, storeAtStart,
                 runs, prevR, allPublishing, prevFailure, poolVars, ioVars, runB>>

\* the log put resolves: lines 172-178
PersistOk ==
  /\ pc = "PERSISTING"
  /\ log' = writeLogFile(currentFiles, releaseFiles)
  /\ pc' = "DONE"
  /\ callbackCalls' = callbackCalls + 1
  /\ UNCHANGED <<batch, store, runVars, execVars, ghostVars, histVars,
                 prevFailure, poolVars, ioVars, runB>>

\* the log put rejects: the await at line 171 throws
PersistFail ==
  /\ pc = "PERSISTING"
  /\ pc' = "FAILED"
  /\ failure' = "persist"
  /\ clean' = FALSE
  /\ UNCHANGED <<batch, log, store, runVars, execVars, callbackCalls, fetchRes,
                 deleteIssued, writeIssued, logAtStart, storeAtStart,
                 runs, prevR, allPublishing, prevFailure, poolVars, ioVars, runB>>

Next ==
  \/ \E R \in SUBSET Files : StartRun(R)
  \/ \E o \in {"ok", "error", "nofields"} : FetchDone(o)
  \/ \E i \in 1..Len(FileOrder) : UploadOk(i)
  \/ \E i \in 1..Len(FileOrder) : UploadFail(i)
  \/ UploadsDone
  \/ DeleteOk
  \/ \E D \in SUBSET Files : DeleteFail(D)
  \/ PersistOk
  \/ PersistFail

Spec == Init /\ [][Next]_vars

\* ------------------------------------------------------- overlapping runs
\* Nothing locks the log: a second after-emit run (another build) can start
\* while the first is in progress.  It runs the same code on its own locals,
\* runB, against the same bucket.
aVars == <<batch, pc, runVars, execVars, callbackCalls, ghostVars, histVars,
           prevFailure, poolVars, ioVars>>

\* the logs earlier runs without failure leave behind: none, an empty one, or
\* {prev: P, current: C} written by a run that had a file of C to upload
RemoteLogs ==
  {NoLog, EmptyLog} \cup
  {l \in [prev : SUBSET Files, current : SUBSET Files] : l.current \ l.prev # {}}

\* a fresh plugin with the default batch (every put of a run is in flight at
\* once, so the puts end in any order) facing a bucket that earlier builds
\* have filled; the bound on the runs leaves one run to the first hook
InitOverlap ==
  /\ batch = DefaultBatch
  /\ log \in RemoteLogs
  /\ store = LogPrev(log) \cup LogCurrent(log)
  /\ pc = "IDLE"
  /\ releaseFiles = {} /\ prevFiles = {} /\ currentFiles = {}
  /\ uploadFiles = <<>> /\ deleteFiles = {}
  /\ nextTask = 1 /\ inflight = {} /\ succeeded = {}
  /\ callbackCalls = 0
  /\ fetchRes = "none" /\ failure = "none"
  /\ deleteIssued = FALSE /\ writeIssued = FALSE
  /\ logAtStart = log /\ storeAtStart = store
  /\ runs = MaxRuns - 1 /\ prevR = LogCurrent(log)
  /\ clean = TRUE /\ allPublishing = TRUE
  /\ prevFailure = "none"
  /\ starts = <<>> /\ results = <<>>
  /\ logReads = 0 /\ logWrites = 0
  /\ runB = IdleRun

StartRunB(R) ==
  /\ runB.pc = "IDLE"
  /\ pc \in {"FETCHING", "UPLOADING", "DELETING", "PERSISTING"}
  /\ runB' = [IdleRun EXCEPT !.pc = "FETCHING", !.releaseFiles = R]
  /\ UNCHANGED <<aVars, log, store>>

FetchDoneB(outcome) ==
  /\ runB.pc = "FETCHING"
  /\ outcome = "ok" => log # NoLog
  /\ outcome = "nofields" => log # NoLog
  /\ LET body == getLogFile(outcome)
         p == DefaultPrev(body)
         c == DefaultCurrent(body)
         r == combineFiles(p, c, runB.releaseFiles)
         n == mapLimitStart(Len(r.uploadFiles), UploadLimit(Len(r.uploadFiles)))
     IN runB' = [runB EXCEPT !.pc = "UPLOADING",
                             !.prevFiles = p, !.currentFiles = c,
                             !.uploadFiles = r.uploadFiles,
                             !.deleteFiles = r.deleteFiles,
                             !.inflight = 1..n, !.nextTask = n + 1]
  /\ UNCHANGED <<aVars, log, store>>

UploadOkB(i) ==
  /\ i \in runB.inflight
  /\ store' = store \cup {TaskFile(runB.uploadFiles, i)}
  /\ LET q == mapLimitPool(runB.uploadFiles, runB.inflight, runB.nextTask, i)
     IN runB' = IF runB.pc = "UPLOADING"
                  THEN [runB EXCEPT !.succeeded = @ \cup {i},
                                    !.inflight = q.inflight,
                                    !.nextTask = q.nextTask]
                  ELSE [runB EXCEPT !.inflight = @ \ {i}]
  /\ UNCHANGED <<aVars, log>>

UploadFailB(i) ==
  /\ i \in runB.inflight
  /\ runB' = IF runB.pc = "UPLOADING"
               THEN [runB EXCEPT !.inflight = @ \ {i}, !.pc = "FAILED"]
               ELSE [runB EXCEPT !.inflight = @ \ {i}]
  /\ UNCHANGED <<aVars, log, store>>

UploadsDoneB ==
  /\ runB.pc = "UPLOADING"
  /\ runB.succeeded = 1..Len(runB.uploadFiles)
  /\ runB' = IF ShouldPublish(runB.uploadFiles)
               THEN IF ShouldDelete(runB.deleteFiles)
                      THEN [runB EXCEPT !.pc = "DELETING"]
                      ELSE [runB EXCEPT !.pc = "PERSISTING"]
               ELSE [runB EXCEPT !.pc = "DONE", !.callbackCalls = @ + 1]
  /\ UNCHANGED <<aVars, log, store>>

DeleteOkB ==
  /\ runB.pc = "DELETING"
  /\ store' = store \ runB.deleteFiles
  /\ runB' = [runB EXCEPT !.pc = "PERSISTING"]
  /\ UNCHANGED <<aVars, log>>

DeleteFailB(D) ==
  /\ runB.pc = "DELETING"
  /\ D \subseteq runB.deleteFiles
  /\ store' = store \ D
  /\ runB' = [runB EXCEPT !.pc = "FAILED"]
  /\ UNCHANGED <<aVars, log>>

PersistOkB ==
  /\ runB.pc = "PERSISTING"
  /\ log' = writeLogFile(runB.currentFiles, runB.releaseFiles)
  /\ runB' = [runB EXCEPT !.pc = "DONE", !.callbackCalls = @ + 1]
  /\ UNCHANGED <<aVars, store>>

PersistFailB ==
  /\ runB.pc = "PERSISTING"
  /\ runB' = [runB EXCEPT !.pc = "FAILED"]
  /\ UNCHANGED <<aVars, log, store>>

NextOverlap ==
  \/ \E R \in SUBSET Files : StartRun(R)
  \/ \E o \in {"ok", "error", "nofields"} : FetchDone(o)
  \/ \E i \in 1..Len(FileOrder) : UploadOk(i)
  \/ \E i \in 1..Len(FileOrder) : UploadFail(i)
  \/ UploadsDone
  \/ DeleteOk
  \/ \E D \in SUBSET Files : DeleteFail(D)
  \/ PersistOk
  \/ PersistFail
  \/ \E R \in SUBSET Files : StartRunB(R)
  \/ \E o \in {"ok", "error", "nofields"} : FetchDoneB(o)
  \/ \E i \in 1..Len(FileOrder) : UploadOkB(i)
  \/ \E i \in 1..Len(FileOrder) : UploadFailB(i)
  \/ UploadsDoneB
  \/ DeleteOkB
  \/ \E D \in SUBSET Files : DeleteFailB(D)
  \/ PersistOkB
  \/ PersistFailB

SpecOverlap == InitOverlap /\ [][NextOverlap]_vars

\* ---------------------------------------------------------------- claims
InProgress == pc \in {"FETCHING", "UPLOADING", "DELETING", "PERSISTING"}
Reconciled == fetchRes # "none"
AllUploaded == succeeded = 1..Len(uploadFiles) /\ inflight = {}

\* C1 (as stated): after N runs without any failure, whatever their
\* candidates, the log has current = R_N and previous = R_(N-1)
C1_WindowAnyCandidate ==
  (pc = "DONE" /\ clean) =>
     (LogCurrent(log) = releaseFiles /\ LogPrev(log) = prevR)

\* C1 (amended): after N runs without any failure, each of which had at least
\* one file to upload, the log has current = R_N and previous = R_(N-1)
\* (empty when N < 2)
C1_Window ==
  (pc = "DONE" /\ clean /\ allPublishing) =>
     (log # NoLog /\ log.current = releaseFiles /\ log.prev = prevR)

C1_Witness ==
  /\ pc = "DONE" /\ clean /\ allPublishing /\ runs = 3
  /\ prevR # {} /\ releaseFiles # prevR /\ logAtStart.prev # {}

\* C2: after every run that wrote the log, every file of the log's
\* previous and current sets is in the store, whatever runs came before
C2_StoreCoversLog ==
  (pc = "DONE" /\ writeIssued) => (log.prev \cup log.current) \subseteq store

C2_Witness ==
  /\ pc = "DONE" /\ writeIssued /\ ~clean /\ deleteIssued
  /\ log.prev # {} /\ store # Files

\* C3: when a put fails the run is FAILED, no delete was issued, the log was
\* not written and is the log the run started with; nothing left the store
C3_UploadFailure ==
  failure = "upload" =>
     /\ pc = "FAILED"
     /\ ~deleteIssued /\ ~writeIssued
     /\ log = logAtStart
     /\ storeAtStart \subseteq store

C3_Witness ==
  failure = "upload" /\ deleteFiles # {} /\ inflight = {} /\ logAtStart # NoLog

\* C4 (as stated): a run whose delete step fails still writes the log
\* {prev: old current, current: candidate} and ends DONE
C4_DeleteNonFatal ==
  (failure = "delete" /\ pc \in Terminal) =>
     (pc = "DONE" /\ log = [prev |-> currentFiles, current |-> releaseFiles])

\* C5: a run with nothing to upload issues no delete and no log write and
\* never fails: the log and the store stay as they were when it started
C5_NoOp ==
  (Reconciled /\ Len(uploadFiles) = 0) =>
     /\ pc \in {"UPLOADING", "DONE"}
     /\ ~deleteIssued /\ ~writeIssued
     /\ log = logAtStart /\ store = storeAtStart

C5_Witness ==
  /\ Reconciled /\ Len(uploadFiles) = 0 /\ pc = "DONE" /\ callbackCalls = 1
  /\ releaseFiles # {} /\ releaseFiles # currentFiles
  /\ prevFiles \ (currentFiles \cup releaseFiles) # {}

\* C6: a log request that fails or brings no prev/current field does not
\* fail the run: every candidate file is uploaded, nothing is deleted, and a
\* run with a non-empty candidate that ends DONE leaves {prev: {}, current: candidate}
C6_FailOpen ==
  fetchRes \in {"error", "nofields"} =>
     /\ prevFiles = {} /\ currentFiles = {}
     /\ uploadFiles = SetToSeq(releaseFiles)
     /\ deleteFiles = {} /\ ~deleteIssued
     /\ storeAtStart \subseteq store
     /\ pc = "FAILED" => failure \in {"upload", "persist"}
     /\ (pc = "DONE" /\ releaseFiles # {}) =>
           (log = [prev |-> {}, current |-> releaseFiles] /\ releaseFiles \subseteq store)

C6_Witness ==
  /\ fetchRes = "error" /\ pc = "DONE" /\ releaseFiles # {}
  /\ logAtStart # NoLog /\ logAtStart.prev # {}
  /\ logAtStart.prev \ (logAtStart.current \cup releaseFiles) # {}

\* C7: no put starts before the log request has ended and the files are
\* combined; batchDelete is called, and the store loses a file, only when
\* every put of the run has been started and has succeeded; the log is
\* written only after that and after the delete step, when there is one
C7_StepOrder ==
  /\ ~Reconciled => (inflight = {} /\ nextTask = 1 /\ succeeded = {})
  /\ deleteIssued => (AllUploaded /\ nextTask = Len(uploadFiles) + 1)
  /\ ~deleteIssued => storeAtStart \subseteq store
  /\ writeIssued => /\ AllUploaded
                    /\ deleteFiles # {} => (deleteIssued /\ pc # "DELETING")
  /\ ~writeIssued => log = logAtStart

C7_Witness ==
  /\ pc = "DONE" /\ writeIssued /\ deleteIssued
  /\ Len(uploadFiles) = 1 /\ deleteFiles # {} /\ store # storeAtStart

\* C8: a run that read the log (P, C), had R \ C non-empty and ended DONE
\* has put exactly R \ C, deleted exactly P \ (C u R) and left {prev: C, current: R}
C8_RunEffect ==
  (pc = "DONE" /\ fetchRes = "ok" /\ writeIssued) =>
     LET P == logAtStart.prev
         C == logAtStart.current
         R == releaseFiles
     IN /\ Range(uploadFiles) = R \ C
        /\ AllUploaded
        /\ deleteFiles = P \ (C \cup R)
        /\ store = (storeAtStart \cup (R \ C)) \ (P \ (C \cup R))
        /\ (C \cup R) \cap (storeAtStart \ store) = {}
        /\ log = [prev |-> C, current |-> R]

\* the scenario of the spec on three names: P = {a}, C = {b}, R = {b, c}
\* uploads {c}, deletes {a} and leaves previous = {b}, current = {b, c}
C8_Witness ==
  /\ pc = "DONE" /\ fetchRes = "ok" /\ writeIssued
  /\ logAtStart = [prev |-> {"a"}, current |-> {"b"}]
  /\ releaseFiles = {"b", "c"}
  /\ storeAtStart = {"a", "b"} /\ store = {"b", "c"}
  /\ log = [prev |-> {"b"}, current |-> {"b", "c"}]

\* C9 (as stated): in every reachable state, after failed and fail-open runs
\* too, the store holds only files of log.prev, log.current and the
\* candidate of the run in progress
C9_BoundedAlways ==
  store \subseteq (LogPrev(log) \cup LogCurrent(log)
                   \cup (IF InProgress THEN releaseFiles ELSE {}))

\* C9 (amended): as long as no upload, delete or log write has failed and
\* every log request has returned the persisted log or found none, the store
\* holds only files of log.prev, log.current and the candidate of the run in
\* progress
C9_Bounded ==
  clean => C9_BoundedAlways

C9_Witness ==
  /\ clean /\ pc = "DELETING" /\ deleteFiles # {}
  /\ store \ (LogPrev(log) \cup LogCurrent(log)) # {}
  /\ store = LogPrev(log) \cup LogCurrent(log) \cup releaseFiles

\* C10 (as stated): every run that has ended, DONE or FAILED, has invoked the
\* callback of the build pipeline
C10_CallbackInvoked ==
  pc \in Terminal => callbackCalls = 1

\* C11: never more than `batch` puts are started and not resolved, no task
\* is started twice, and once mapLimit has resolved without a failed task
\* every task of the upload set was started exactly once
C11_ConcurrencyBound ==
  /\ Cardinality(inflight) <= batch
  /\ \A i \in DOMAIN starts : starts[i] <= 1
  /\ \A i \in inflight : starts[i] = 1
  /\ (Reconciled /\ failure # "upload" /\ (pc = "UPLOADING" => succeeded = 1..Len(uploadFiles))) =>
        \A i \in 1..Len(uploadFiles) : starts[i] = 1

C11_Witness ==
  /\ pc = "UPLOADING" /\ batch = 2 /\ Len(uploadFiles) = 3
  /\ Cardinality(inflight) = 2 /\ succeeded # {} /\ nextTask = 4

C13_LogAccessInv ==
  /\ pc # "IDLE" => logReads = 1
  /\ ~Reconciled => (inflight = {} /\ succeeded = {} /\ ~deleteIssued
                     /\ store = storeAtStart)
  /\ logWrites <= 1
  /\ logWrites = 1 =>
        /\ Len(uploadFiles) > 0 /\ AllUploaded
        /\ deleteFiles # {} => (deleteIssued /\ failure # "delete"
                                /\ store \cap deleteFiles = {})
  /\ (pc \in Terminal /\ Len(uploadFiles) > 0
        /\ failure \notin {"upload", "delete"}) => logWrites = 1
  /\ (pc \in Terminal /\ Len(uploadFiles) = 0) => logWrites = 0

C13_LogAccess ==
  /\ []C13_LogAccessInv
  /\ [][(logWrites = 1 /\ logWrites' = 1) => store' = store]_vars

C13_Witness ==
  /\ pc = "DONE" /\ logReads = 1 /\ logWrites = 1 /\ deleteIssued
  /\ log # logAtStart

C16_CallbackSafety ==
  /\ callbackCalls <= 1
  /\ callbackCalls = 1 =>
        /\ pc = "DONE"
        /\ inflight = {} /\ succeeded = 1..Len(uploadFiles)
        /\ deleteIssued => store \cap deleteFiles = {}
        /\ writeIssued => log = [prev |-> currentFiles, current |-> releaseFiles]
        /\ logWrites = (IF Len(uploadFiles) > 0 THEN 1 ELSE 0)

C16_Witness ==
  /\ callbackCalls = 1 /\ deleteIssued /\ writeIssued /\ Len(uploadFiles) >= 1

BothDone == pc = "DONE" /\ runB.pc = "DONE"
\* both runs were handed the log the first run found when it started
SameLogRead ==
  /\ prevFiles = LogPrev(logAtStart) /\ currentFiles = LogCurrent(logAtStart)
  /\ runB.prevFiles = prevFiles /\ runB.currentFiles = currentFiles
OldOnly == LogPrev(logAtStart) \ LogCurrent(logAtStart)

\* C15 (as stated): when two overlapping runs have read the same log and both
\* have ended DONE, every file of the log's current set is in the store
C15_OverlapCurrentLive ==
  (BothDone /\ SameLogRead) => LogCurrent(log) \subseteq store

\* C15 (amended): when two overlapping runs have read the same log and both
\* have ended DONE, every file of the log's current set is in the store,
\* except files of the previous set of the log they read that are not in its
\* current set
C15_Overlap ==
  (BothDone /\ SameLogRead) => (LogCurrent(log) \ OldOnly) \subseteq store

C15_Witness ==
  /\ BothDone /\ SameLogRead
  /\ deleteIssued /\ Len(runB.uploadFiles) > 0
  /\ log = [prev |-> currentFiles, current |-> runB.releaseFiles]
  /\ runB.releaseFiles # releaseFiles
  /\ LogCurrent(log) \ store # {}
====
